---- MODULE Spec2Model ----
(***************************************************************************)
(* ALG-BINARY: envy-graph augmenting-path heuristic for Nash Social        *)
(* Welfare under binary preferences (src/ALG-BINARY_loese_Instanz.py and   *)
(* src/ALG_BINARY_generiere_daten.py, whose functions are identical up to  *)
(* printing).                                                              *)
(*                                                                         *)
(* Python lists are TLA+ sequences holding the 0-based values of the       *)
(* program; list[i] is At(list, i).  Real numbers produced by              *)
(* x ** (1 / agent_quantity) are kept exactly as radicals                  *)
(* [rad |-> x, idx |-> n] (the real number x^(1/n)); floating-point        *)
(* rounding is not modelled.                                               *)
(***************************************************************************)
EXTENDS Integers, Sequences, FiniteSets, TLC

VARIABLES
    agent_quantity,         \* global n
    item_quantity,          \* global m
    preferences,            \* main: preferences (list of n lists of m booleans)
    allocation,             \* main / random_allocation: allocation (item -> owner)
    leftover_items,         \* random_allocation: marks of the first part
    leftover_item,          \* random_allocation: index of the second-part for loop
    infinity_counter,       \* random_allocation: tries for the current item
    run,                    \* main: index of the for loop
    global_swapping_list,   \* main: the swapping plans executed so far
    pc,                     \* position in main
    returned,               \* value returned by main (NoValue while running)
    visited_allocations,    \* history: allocations the loop has held so far
    agent_values,           \* argument of the welfare evaluator (SpecNsw)
    nsw_value,              \* result of the welfare evaluator (SpecNsw)
    envy_relation,          \* argument of the APSP solver (SpecApsp)
    solution_matrix,        \* result of the APSP solver (SpecApsp)
    chosen_path             \* path handed to the executor (SpecExecutor)

vars == <<agent_quantity, item_quantity, preferences, allocation, leftover_items,
          leftover_item, infinity_counter, run, global_swapping_list, pc,
          returned, visited_allocations, agent_values, nsw_value,
                   envy_relation, solution_matrix, chosen_path>>

\* ------------------------------------------------------------------ bounds
MaxAgents == 3
MaxItems == 6
MaxCoinflips == 8
SparseAgents == 5
MaxVectorLength == 41
MaxGraphNodes == 5
MaxEdges == 4

\* --------------------------------------------------------- program constants
NoOwner == -1           \* the placeholder "x" of a fresh allocation
Inf == -1               \* the distance "inf" of bfs
NoValue == -1           \* main has not returned yet
ChunkSize == 20         \* split_nsw roots the product every 20 values
ConvergedReturn == 0    \* return 0 inside the loop (the best path is empty)
ExhaustedReturn == 0    \* return 0 after the loop

\* ----------------------------------------------------------- Python lists
At(list, i) == list[i + 1]
Put(list, i, v) == [list EXCEPT ![i + 1] = v]
Range0(k) == [i \in 1..k |-> i - 1]
Repeat(v, k) == [i \in 1..k |-> v]
Min(S) == CHOOSE x \in S : \A y \in S : x <= y

\* ------------------------------------------------------------ exact reals
RECURSIVE Pow(_, _)
Pow(b, e) == IF e = 0 THEN 1 ELSE b * Pow(b, e - 1)

Whole(k) == [rad |-> k, idx |-> 1]
\* x ** (1 / n)
Root(x, n) == [rad |-> x, idx |-> n]
\* a * b  (x^(1/p) * y^(1/q) = (x^q * y^p)^(1/(p*q)))
RMul(a, b) ==
    IF a.idx = b.idx THEN [rad |-> a.rad * b.rad, idx |-> a.idx]
    ELSE [rad |-> Pow(a.rad, b.idx) * Pow(b.rad, a.idx), idx |-> a.idx * b.idx]
\* a > b  (x^(1/p) > y^(1/q) iff x^q > y^p, for non-negative x, y)
RGreater(a, b) ==
    IF a.idx = b.idx THEN a.rad > b.rad
    ELSE Pow(a.rad, b.idx) > Pow(b.rad, a.idx)
RIsZero(a) == a.rad = 0

\* ------------------------------------------------ create_agent_preferences
\* The instances explored: every (n, m) up to MaxAgents x MaxItems with at
\* most MaxCoinflips free coin flips, under every outcome of the flips, and one
\* larger, sparse instance size (low liking_probability) in which agent a can
\* only come to like the items a % 2 and a % 2 + 2.
Exhaustive(n, m) == n <= MaxAgents /\ m <= MaxItems /\ (n - 1) * m <= MaxCoinflips

Instances ==
    { instance \in (1..MaxAgents) \X (1..MaxItems) :
        Exhaustive(instance[1], instance[2]) }
    \cup {<<SparseAgents, SparseAgents>>}

CanLike(agent, n, m) ==
    IF Exhaustive(n, m) THEN 0..(m - 1)
    ELSE {agent % 2, (agent % 2) + 2} \cap (0..(m - 1))

\* the lists of preferences the coin flips can give to one agent
specific_preferences(agent, n, m) ==
    { [item \in 1..m |-> (item - 1) \in liked] : liked \in SUBSET CanLike(agent, n, m) }

RECURSIVE coinflips(_, _, _)
coinflips(agents, n, m) ==
    IF agents = 0 THEN {<<>>}
    ELSE { Append(agent_list, row) :
              agent_list \in coinflips(agents - 1, n, m),
              row \in specific_preferences(agents - 1, n, m) }

\* Every outcome of the coin flips; the last agent likes all items.
create_agent_preferences(n, m) ==
    { Append(agent_list, Repeat(TRUE, m)) : agent_list \in coinflips(n - 1, n, m) }

\* ------------------------------------------------------- random_allocation
\* First part: each agent in turn takes the first liked, undistributed item.
RECURSIVE first_part(_, _, _, _)
first_part(prefs, agent, alloc, leftover) ==
    IF agent >= Len(prefs) THEN [allocation |-> alloc, leftover_items |-> leftover]
    ELSE LET liked == { item \in 0..(Len(alloc) - 1) :
                          At(At(prefs, agent), item) /\ At(leftover, item) # 1 }
         IN  IF liked = {} THEN first_part(prefs, agent + 1, alloc, leftover)
             ELSE first_part(prefs, agent + 1,
                             Put(alloc, Min(liked), agent),
                             Put(leftover, Min(liked), 1))

\* ----------------------------------------------------------------- welfare
\* faulty variant of split_nsw_loop: a value of zero is left out of the product
RECURSIVE split_nsw_loop_skip_zero(_, _, _, _)
split_nsw_loop_skip_zero(values, counter, product, rooted_product) ==
    IF counter >= Len(values)
    THEN [product |-> product, rooted_product |-> rooted_product]
    ELSE LET c == counter + 1
             p == IF values[c] = 0 THEN product ELSE product * values[c]
         IN  IF c % ChunkSize = 0
             THEN split_nsw_loop_skip_zero(values, c, 1,
                                 RMul(rooted_product, Root(p, agent_quantity)))
             ELSE split_nsw_loop_skip_zero(values, c, p, rooted_product)

\* faulty variant of split_nsw_loop: the product is not reset after a chunk
RECURSIVE split_nsw_loop_no_reset(_, _, _, _)
split_nsw_loop_no_reset(values, counter, product, rooted_product) ==
    IF counter >= Len(values)
    THEN [product |-> product, rooted_product |-> rooted_product]
    ELSE LET c == counter + 1
             p == product * values[c]
         IN  IF c % ChunkSize = 0
             THEN split_nsw_loop_no_reset(values, c, p,
                                 RMul(rooted_product, Root(p, agent_quantity)))
             ELSE split_nsw_loop_no_reset(values, c, p, rooted_product)

RECURSIVE split_nsw_loop(_, _, _, _)
split_nsw_loop(values, counter, product, rooted_product) ==
    IF counter >= Len(values)
    THEN [product |-> product, rooted_product |-> rooted_product]
    ELSE LET c == counter + 1
             p == product * values[c]
         IN  IF c % ChunkSize = 0
             THEN split_nsw_loop(values, c, 1,
                                 RMul(rooted_product, Root(p, agent_quantity)))
             ELSE split_nsw_loop(values, c, p, rooted_product)

\* faulty variant of split_nsw: the values after the last full chunk are forgotten
split_nsw_full_chunks_only(values) ==
    split_nsw_loop(values, 0, 1, Whole(1)).rooted_product

split_nsw(values) ==
    LET s == split_nsw_loop(values, 0, 1, Whole(1))
    IN  RMul(s.rooted_product, Root(s.product, agent_quantity))

\* numpy.prod of a list of counts (the products of the vectors explored stay
\* far below the width of numpy's integers)
RECURSIVE prod(_)
prod(values) == IF values = <<>> THEN 1 ELSE Head(values) * prod(Tail(values))

\* power(prod(agent_values), abs(1 / agent_quantity))
nash_social_welfare(values) == Root(prod(values), agent_quantity)

RECURSIVE count_items(_, _, _)
count_items(alloc, item, values) ==
    IF item >= item_quantity THEN values
    ELSE count_items(alloc, item + 1,
                     Put(values, At(alloc, item), At(values, At(alloc, item)) + 1))

calculate_agent_valuations(alloc) == count_items(alloc, 0, Repeat(0, agent_quantity))

\* faulty variant of fast_nsw: the giver's count is not reduced
fast_nsw_receiver_only(path, alloc) ==
    LET v0 == calculate_agent_valuations(alloc)
    IN  split_nsw(Put(v0, path[1], At(v0, path[1]) + 1))

fast_nsw(path, alloc) ==
    LET v0 == calculate_agent_valuations(alloc)
        v1 == Put(v0, path[1], At(v0, path[1]) + 1)
        v2 == Put(v1, path[Len(path)], At(v1, path[Len(path)]) - 1)
    IN  split_nsw(v2)

\* -------------------------------------------------------------- envy graph
\* faulty variant of envy_list: the items the agent owns are collected
envy_list_own_items(prefs, x, alloc) ==
    SelectSeq(Range0(item_quantity),
              LAMBDA item : At(At(prefs, x), item) /\ At(alloc, item) = x)

envy_list(prefs, x, alloc) ==
    SelectSeq(Range0(item_quantity),
              LAMBDA item : At(At(prefs, x), item) /\ At(alloc, item) # x)

envied_agents(envied_items, alloc) ==
    [specific_agent \in 1..Len(envied_items) |->
        [k \in 1..Len(envied_items[specific_agent]) |->
            At(alloc, envied_items[specific_agent][k])]]

calculate_item_envy_relations(prefs, alloc) ==
    envied_agents([i \in 1..agent_quantity |-> envy_list(prefs, i - 1, alloc)], alloc)

RECURSIVE Insert(_, _)
Insert(sorted, v) ==
    IF sorted = <<>> THEN <<v>>
    ELSE IF v < Head(sorted) THEN <<v>> \o sorted
    ELSE <<Head(sorted)>> \o Insert(Tail(sorted), v)

RECURSIVE Sort(_)
Sort(list) == IF list = <<>> THEN <<>> ELSE Insert(Sort(Tail(list)), Head(list))

RECURSIVE FromKeys(_, _)
FromKeys(list, seen) ==
    IF list = <<>> THEN <<>>
    ELSE IF Head(list) \in seen THEN FromKeys(Tail(list), seen)
    ELSE <<Head(list)>> \o FromKeys(Tail(list), seen \cup {Head(list)})

\* faulty variant of shorten_envy_list: the lists are not sorted
shorten_envy_list_unsorted(agent_edges_list) ==
    [i \in 1..Len(agent_edges_list) |-> FromKeys(agent_edges_list[i], {})]

shorten_envy_list(agent_edges_list) ==
    [i \in 1..Len(agent_edges_list) |-> FromKeys(Sort(agent_edges_list[i]), {})]

\* -------------------------------------------------------------------- APSP
\* faulty variant of bfs_neighbours: a neighbour found again on the same
\* level gets the path over the later node
RECURSIVE bfs_neighbours_last_parent(_, _, _, _)
bfs_neighbours_last_parent(rel, node, i, s) ==
    IF i >= Len(At(rel, node)) THEN s
    ELSE LET nb == At(At(rel, node), i)
         IN  IF ~At(s.visited, nb)
             THEN bfs_neighbours_last_parent(rel, node, i + 1,
                    [queue     |-> Append(s.queue, nb),
                     visited   |-> Put(s.visited, nb, TRUE),
                     distances |-> Put(s.distances, nb, At(s.distances, node) + 1),
                     paths     |-> Put(s.paths, nb, At(s.paths, node) \o <<node>>)])
             ELSE IF At(s.distances, nb) = At(s.distances, node) + 1
             THEN bfs_neighbours_last_parent(rel, node, i + 1,
                    [s EXCEPT !.paths = Put(s.paths, nb, At(s.paths, node) \o <<node>>)])
             ELSE bfs_neighbours_last_parent(rel, node, i + 1, s)

RECURSIVE bfs_neighbours(_, _, _, _)
bfs_neighbours(rel, node, i, s) ==
    IF i >= Len(At(rel, node)) THEN s
    ELSE LET nb == At(At(rel, node), i)
         IN  IF ~At(s.visited, nb)
             THEN bfs_neighbours(rel, node, i + 1,
                    [queue     |-> Append(s.queue, nb),
                     visited   |-> Put(s.visited, nb, TRUE),
                     distances |-> Put(s.distances, nb, At(s.distances, node) + 1),
                     paths     |-> Put(s.paths, nb, At(s.paths, node) \o <<node>>)])
             ELSE bfs_neighbours(rel, node, i + 1, s)

RECURSIVE bfs_while(_, _)
bfs_while(rel, s) ==
    IF Len(s.queue) = 0 THEN s
    ELSE bfs_while(rel, bfs_neighbours(rel, Head(s.queue), 0,
                                       [s EXCEPT !.queue = Tail(s.queue)]))

\* the order in which the while loop of bfs pops the nodes off the queue
RECURSIVE bfs_popped(_, _, _)
bfs_popped(rel, s, popped) ==
    IF Len(s.queue) = 0 THEN popped
    ELSE bfs_popped(rel,
                    bfs_neighbours(rel, Head(s.queue), 0,
                                   [s EXCEPT !.queue = Tail(s.queue)]),
                    Append(popped, Head(s.queue)))

\* faulty variant of bfs: the start node gets a path to itself
bfs_with_self_path(rel, start_node) ==
    LET s0 == [queue     |-> <<start_node>>,
               visited   |-> Put(Repeat(FALSE, agent_quantity), start_node, TRUE),
               distances |-> Put(Repeat(Inf, agent_quantity), start_node, 0),
               paths     |-> Repeat(<<>>, agent_quantity)]
        s  == bfs_while(rel, s0)
    IN  [k \in 1..agent_quantity |->
            IF s.distances[k] = Inf THEN <<>> ELSE Append(s.paths[k], k - 1)]

\* faulty variant of bfs: the start node is left out of the paths
bfs_without_source(rel, start_node) ==
    LET s0 == [queue     |-> <<start_node>>,
               visited   |-> Put(Repeat(FALSE, agent_quantity), start_node, TRUE),
               distances |-> Put(Repeat(Inf, agent_quantity), start_node, 0),
               paths     |-> Repeat(<<>>, agent_quantity)]
        s  == bfs_while(rel, s0)
    IN  [k \in 1..agent_quantity |->
            IF k - 1 # start_node
            THEN IF s.distances[k] = Inf THEN <<>>
                 ELSE Tail(Append(s.paths[k], k - 1))
            ELSE s.paths[k]]

bfs(rel, start_node) ==
    LET s0 == [queue     |-> <<start_node>>,
               visited   |-> Put(Repeat(FALSE, agent_quantity), start_node, TRUE),
               distances |-> Put(Repeat(Inf, agent_quantity), start_node, 0),
               paths     |-> Repeat(<<>>, agent_quantity)]
        s  == bfs_while(rel, s0)
    IN  [k \in 1..agent_quantity |->
            IF k - 1 # start_node
            THEN IF s.distances[k] = Inf THEN <<>> ELSE Append(s.paths[k], k - 1)
            ELSE s.paths[k]]

solve_APSP(rel) == [agent \in 1..agent_quantity |-> bfs(rel, agent - 1)]

\* ---------------------------------------------------------------- selector
RECURSIVE find_path_paths(_, _, _, _)
find_path_paths(node, j, alloc, s) ==
    IF j > Len(node) THEN s
    ELSE IF node[j] # <<>> /\ RGreater(fast_nsw(node[j], alloc), s.current_maximum)
         THEN find_path_paths(node, j + 1, alloc,
                [best_path |-> node[j], current_maximum |-> fast_nsw(node[j], alloc)])
         ELSE find_path_paths(node, j + 1, alloc, s)

RECURSIVE find_path_nodes(_, _, _, _)
find_path_nodes(apsp_matrix, i, alloc, s) ==
    IF i > Len(apsp_matrix) THEN s
    ELSE find_path_nodes(apsp_matrix, i + 1, alloc,
                         find_path_paths(apsp_matrix[i], 1, alloc, s))

\* faulty variant of find_path: a path that merely keeps the welfare is returned too
find_path_not_worse(apsp_matrix, alloc) ==
    LET s == find_path_nodes(apsp_matrix, 1, alloc,
                             [best_path |-> <<>>, current_maximum |-> Whole(0)])
        current_nsw == split_nsw(calculate_agent_valuations(alloc))
    IN  IF ~RGreater(current_nsw, s.current_maximum) THEN s.best_path ELSE <<>>

\* faulty variant of find_path: only the paths of the first source are tried
find_path_first_source(apsp_matrix, alloc) ==
    LET s == find_path_paths(apsp_matrix[1], 1, alloc,
                             [best_path |-> <<>>, current_maximum |-> Whole(0)])
        current_nsw == split_nsw(calculate_agent_valuations(alloc))
    IN  IF RGreater(s.current_maximum, current_nsw) THEN s.best_path ELSE <<>>

\* faulty variant of find_path: a later path of equal welfare replaces the best
find_path_last_maximum(apsp_matrix, alloc) ==
    LET candidates == { ij \in (1..Len(apsp_matrix)) \X (1..Len(apsp_matrix)) :
                           apsp_matrix[ij[1]][ij[2]] # <<>> }
        value(ij) == fast_nsw(apsp_matrix[ij[1]][ij[2]], alloc)
        maxima == { ij \in candidates :
                       /\ ~RGreater(Whole(0), value(ij))
                       /\ \A kl \in candidates : ~RGreater(value(kl), value(ij)) }
        current_nsw == split_nsw(calculate_agent_valuations(alloc))
    IN  IF maxima # {}
        THEN LET last == CHOOSE ij \in maxima : \A kl \in maxima :
                             kl[1] < ij[1] \/ (kl[1] = ij[1] /\ kl[2] <= ij[2])
             IN  IF RGreater(value(last), current_nsw)
                 THEN apsp_matrix[last[1]][last[2]] ELSE <<>>
        ELSE <<>>

\* faulty variant of find_path: current_maximum is not updated in the loop
find_path_maximum_not_kept(apsp_matrix, alloc) ==
    LET improving == { ij \in (1..Len(apsp_matrix)) \X (1..Len(apsp_matrix)) :
                         /\ apsp_matrix[ij[1]][ij[2]] # <<>>
                         /\ RGreater(fast_nsw(apsp_matrix[ij[1]][ij[2]], alloc), Whole(0)) }
        current_nsw == split_nsw(calculate_agent_valuations(alloc))
    IN  IF RGreater(Whole(0), current_nsw) /\ improving # {}
        THEN LET last == CHOOSE ij \in improving : \A kl \in improving :
                             kl[1] < ij[1] \/ (kl[1] = ij[1] /\ kl[2] <= ij[2])
             IN  apsp_matrix[last[1]][last[2]]
        ELSE <<>>

find_path(apsp_matrix, alloc) ==
    LET s == find_path_nodes(apsp_matrix, 1, alloc,
                             [best_path |-> <<>>, current_maximum |-> Whole(0)])
        current_nsw == split_nsw(calculate_agent_valuations(alloc))
    IN  IF RGreater(s.current_maximum, current_nsw) THEN s.best_path ELSE <<>>

\* ---------------------------------------------------------------- executor
\* faulty variant of find_possession: the loop over the items starts at item 1
find_possession_from_one(alloc) ==
    [agent \in 1..agent_quantity |->
        SelectSeq(Range0(Len(alloc)),
                  LAMBDA item : item >= 1 /\ At(alloc, item) = agent - 1)]

find_possession(alloc) ==
    [agent \in 1..agent_quantity |->
        SelectSeq(Range0(Len(alloc)), LAMBDA item : At(alloc, item) = agent - 1)]

RECURSIVE pick_items_loop(_, _, _, _, _)
pick_items_loop(best_path, agent, possessions, prefs, swapping_item_list) ==
    IF agent >= Len(best_path) - 1 THEN swapping_item_list
    ELSE LET giveable == SelectSeq(At(possessions, At(best_path, agent + 1)),
                           LAMBDA item : At(At(prefs, At(best_path, agent)), item))
         IN  pick_items_loop(best_path, agent + 1, possessions, prefs,
                 IF giveable = <<>> THEN swapping_item_list
                 ELSE Append(swapping_item_list, Head(giveable)))

\* faulty variant of pick_items: the giver's first item is taken whether the
\* taker likes it or not
pick_items_any_item(best_path, changing_allocation, possessions, prefs) ==
    [agent \in 1..(Len(best_path) - 1) |->
        Head(At(possessions, At(best_path, agent)))]

\* faulty variant of pick_items: the giver's last liked item is taken, not the first
pick_items_last_liked(best_path, changing_allocation, possessions, prefs) ==
    [agent \in 1..(Len(best_path) - 1) |->
        LET giveable == SelectSeq(At(possessions, At(best_path, agent)),
                           LAMBDA item : At(At(prefs, At(best_path, agent - 1)), item))
        IN  giveable[Len(giveable)]]

pick_items(best_path, changing_allocation, possessions, prefs) ==
    pick_items_loop(best_path, 0, possessions, prefs, <<>>)

RECURSIVE execute_swap_loop(_, _, _, _)
execute_swap_loop(changing_allocation, swapping_list, best_path, item) ==
    IF item >= Len(swapping_list) THEN changing_allocation
    ELSE execute_swap_loop(
            Put(changing_allocation, At(swapping_list, item), At(best_path, item)),
            swapping_list, best_path, item + 1)

\* faulty variant of execute_swap: the item is assigned to the giver of the hop
execute_swap_to_giver(changing_allocation, swapping_list, best_path) ==
    IF swapping_list = <<>> THEN changing_allocation
    ELSE execute_swap_loop(changing_allocation, swapping_list, Tail(best_path), 0)

\* faulty variant of execute_swap: only the first item of the list is moved
execute_swap_first_only(changing_allocation, swapping_list, best_path) ==
    IF swapping_list = <<>> THEN changing_allocation
    ELSE Put(changing_allocation, At(swapping_list, 0), At(best_path, 0))

execute_swap(changing_allocation, swapping_list, best_path) ==
    execute_swap_loop(changing_allocation, swapping_list, best_path, 0)

\* ----------------------------------------------------------------- runtime
\* floor(ln(k) * 10^6) for k = 1..49 (numpy.log in fixed point)
LnMicro ==
    <<0, 693147, 1098612, 1386294, 1609437, 1791759, 1945910, 2079441, 2197224,
      2302585, 2397895, 2484906, 2564949, 2639057, 2708050, 2772588, 2833213,
      2890371, 2944438, 2995732, 3044522, 3091042, 3135494, 3178053, 3218875,
      3258096, 3295836, 3332204, 3367295, 3401197, 3433987, 3465735, 3496507,
      3526360, 3555348, 3583518, 3610917, 3637586, 3663561, 3688879, 3713572,
      3737669, 3761200, 3784189, 3806662, 3828641, 3850147, 3871201, 3891820>>

\* 2 * n * (m + 1) * log(n * m), in millionths
runtime(n, m) == 2 * n * (m + 1) * LnMicro[n * m]

\* round(x) of a value given in millionths
Round(micro) == (micro + 500000) \div 1000000

IterationCap == Round(runtime(agent_quantity, item_quantity))

\* for run in range(0, round(runtime(agent_quantity, item_quantity)))
InRangeInclusive(r) == r <= IterationCap
InRange(r) == r < IterationCap

\* ==================================================================== main
Init ==
    /\ \E instance \in Instances :
          /\ agent_quantity = instance[1]
          /\ item_quantity = instance[2]
    /\ preferences = <<>>
    /\ allocation = <<>>
    /\ leftover_items = <<>>
    /\ leftover_item = 0
    /\ infinity_counter = 0
    /\ run = 0
    /\ global_swapping_list = <<>>
    /\ pc = "create_agent_preferences"
    /\ returned = NoValue
    /\ visited_allocations = {}
    /\ agent_values = <<>>
    /\ nsw_value = Whole(NoValue)
    /\ envy_relation = <<>>
    /\ solution_matrix = <<>>
    /\ chosen_path = <<>>

\* main, PART ONE: preferences = create_agent_preferences(create_agents(n))
CreateAgentPreferences ==
    /\ pc = "create_agent_preferences"
    /\ preferences' \in create_agent_preferences(agent_quantity, item_quantity)
    /\ pc' = "random_allocation"
    /\ UNCHANGED <<agent_quantity, item_quantity, allocation, leftover_items,
                   leftover_item, infinity_counter, run, global_swapping_list,
                   returned, visited_allocations, agent_values, nsw_value,
                   envy_relation, solution_matrix, chosen_path>>

\* random_allocation: initialisation and the first part
FirstPart ==
    /\ pc = "random_allocation"
    /\ LET r == first_part(preferences, 0, Repeat(NoOwner, item_quantity),
                           Repeat(0, item_quantity))
       IN  /\ allocation' = r.allocation
           /\ leftover_items' = r.leftover_items
    /\ leftover_item' = 0
    /\ infinity_counter' = 0
    /\ pc' = "second_part"
    /\ UNCHANGED <<agent_quantity, item_quantity, preferences, run,
                   global_swapping_list, returned, visited_allocations,
                   agent_values, nsw_value,
                   envy_relation, solution_matrix, chosen_path>>

InSecondPart == pc = "second_part" /\ leftover_item < item_quantity
Undistributed == At(leftover_items, leftover_item) # 1

\* second part: the item was distributed in the first part
SkipDistributed ==
    /\ InSecondPart
    /\ ~Undistributed
    /\ leftover_item' = leftover_item + 1
    /\ infinity_counter' = 0
    /\ UNCHANGED <<agent_quantity, item_quantity, preferences, allocation,
                   leftover_items, run, global_swapping_list, pc, returned,
                   visited_allocations, agent_values, nsw_value,
                   envy_relation, solution_matrix, chosen_path>>

\* second part: too many tries, the item goes to the last agent
AllocateToLastAgent ==
    /\ InSecondPart
    /\ Undistributed
    /\ infinity_counter > agent_quantity * agent_quantity
    /\ allocation' = Put(allocation, leftover_item, agent_quantity - 1)
    /\ leftover_item' = leftover_item + 1
    /\ infinity_counter' = 0
    /\ UNCHANGED <<agent_quantity, item_quantity, preferences, leftover_items,
                   run, global_swapping_list, pc, returned, visited_allocations,
                   agent_values, nsw_value,
                   envy_relation, solution_matrix, chosen_path>>

\* faulty variant of TryRandomAgent: the item is given without asking for the liking
TryRandomAgentUnchecked ==
    /\ InSecondPart
    /\ Undistributed
    /\ ~(infinity_counter > agent_quantity * agent_quantity)
    /\ \E x \in 0..(agent_quantity - 2) :
          /\ allocation' = Put(allocation, leftover_item, x)
          /\ leftover_item' = leftover_item + 1
          /\ infinity_counter' = 0
    /\ UNCHANGED <<agent_quantity, item_quantity, preferences, leftover_items,
                   run, global_swapping_list, pc, returned, visited_allocations,
                   agent_values, nsw_value,
                   envy_relation, solution_matrix, chosen_path>>

\* second part: one try, x = randint(0, agent_quantity - 2)
TryRandomAgent ==
    /\ InSecondPart
    /\ Undistributed
    /\ ~(infinity_counter > agent_quantity * agent_quantity)
    /\ \E x \in 0..(agent_quantity - 2) :
          IF At(At(preferences, x), leftover_item)
          THEN /\ allocation' = Put(allocation, leftover_item, x)
               /\ leftover_item' = leftover_item + 1
               /\ infinity_counter' = 0
          ELSE /\ infinity_counter' = infinity_counter + 1
               /\ UNCHANGED <<allocation, leftover_item>>
    /\ UNCHANGED <<agent_quantity, item_quantity, preferences, leftover_items,
                   run, global_swapping_list, pc, returned, visited_allocations,
                   agent_values, nsw_value,
                   envy_relation, solution_matrix, chosen_path>>

\* second part: randint(0, -1) raises ValueError when there is a single agent
RandintRaises ==
    /\ InSecondPart
    /\ Undistributed
    /\ ~(infinity_counter > agent_quantity * agent_quantity)
    /\ agent_quantity - 2 < 0
    /\ pc' = "ValueError"
    /\ UNCHANGED <<agent_quantity, item_quantity, preferences, allocation,
                   leftover_items, leftover_item, infinity_counter, run,
                   global_swapping_list, returned, visited_allocations,
                   agent_values, nsw_value,
                   envy_relation, solution_matrix, chosen_path>>

\* random_allocation returns; main enters the for loop
ReturnAllocation ==
    /\ pc = "second_part"
    /\ leftover_item = item_quantity
    /\ pc' = "loop"
    /\ run' = 0
    /\ global_swapping_list' = <<>>
    /\ visited_allocations' = {allocation}
    /\ UNCHANGED <<agent_quantity, item_quantity, preferences, allocation,
                   leftover_items, leftover_item, infinity_counter, returned,
                   agent_values, nsw_value,
                   envy_relation, solution_matrix, chosen_path>>

\* main, PART THREE: the path chosen in the current iteration
ShortenedEnvyRelation ==
    shorten_envy_list(calculate_item_envy_relations(preferences, allocation))
ApspMatrix == solve_APSP(ShortenedEnvyRelation)
BestPath == find_path(ApspMatrix, allocation)
SwappingPlan ==
    pick_items(BestPath, allocation, find_possession(allocation), preferences)

\* faulty variant of Converge: the return statement is not inside the if
ConvergeUnconditionally ==
    /\ pc = "loop"
    /\ InRange(run)
    /\ pc' = "CONVERGED"
    /\ returned' = ConvergedReturn
    /\ UNCHANGED <<agent_quantity, item_quantity, preferences, allocation,
                   leftover_items, leftover_item, infinity_counter, run,
                   global_swapping_list, visited_allocations, agent_values,
                   nsw_value,
                   envy_relation, solution_matrix, chosen_path>>

\* an iteration whose best path is empty: main returns
Converge ==
    /\ pc = "loop"
    /\ InRange(run)
    /\ BestPath = <<>>
    /\ pc' = "CONVERGED"
    /\ returned' = ConvergedReturn
    /\ UNCHANGED <<agent_quantity, item_quantity, preferences, allocation,
                   leftover_items, leftover_item, infinity_counter, run,
                   global_swapping_list, visited_allocations, agent_values,
                   nsw_value,
                   envy_relation, solution_matrix, chosen_path>>

\* an iteration whose best path is not empty: pick the items, execute the swap
Swap ==
    /\ pc = "loop"
    /\ InRange(run)
    /\ BestPath # <<>>
    /\ global_swapping_list' = Append(global_swapping_list, SwappingPlan)
    /\ allocation' = execute_swap(allocation, SwappingPlan, BestPath)
    /\ visited_allocations' = visited_allocations \cup {allocation'}
    /\ run' = run + 1
    /\ UNCHANGED <<agent_quantity, item_quantity, preferences, leftover_items,
                   leftover_item, infinity_counter, pc, returned, agent_values,
                   nsw_value,
                   envy_relation, solution_matrix, chosen_path>>

\* faulty variant of Exhaust: the statement after the loop returns another value
ExhaustWithOtherValue ==
    /\ pc = "loop"
    /\ ~InRange(run)
    /\ pc' = "BUDGET_EXHAUSTED"
    /\ returned' = ExhaustedReturn + 1
    /\ UNCHANGED <<agent_quantity, item_quantity, preferences, allocation,
                   leftover_items, leftover_item, infinity_counter, run,
                   global_swapping_list, visited_allocations, agent_values,
                   nsw_value,
                   envy_relation, solution_matrix, chosen_path>>

\* the range of the for loop is used up: main returns after the loop
Exhaust ==
    /\ pc = "loop"
    /\ ~InRange(run)
    /\ pc' = "BUDGET_EXHAUSTED"
    /\ returned' = ExhaustedReturn
    /\ UNCHANGED <<agent_quantity, item_quantity, preferences, allocation,
                   leftover_items, leftover_item, infinity_counter, run,
                   global_swapping_list, visited_allocations, agent_values,
                   nsw_value,
                   envy_relation, solution_matrix, chosen_path>>

Next ==
    \/ CreateAgentPreferences
    \/ FirstPart
    \/ SkipDistributed
    \/ AllocateToLastAgent
    \/ TryRandomAgent
    \/ RandintRaises
    \/ ReturnAllocation
    \/ Converge
    \/ Swap
    \/ Exhaust

Spec == Init /\ [][Next]_vars

\* The program is sequential: a step that can be taken is taken.  For the
\* iterations of the loop, WF_vars(Converge \/ Swap) is written out: such a
\* step is enabled exactly when pc = "loop" /\ InRange(run), and every
\* non-stuttering step taken from such a state is one.
AllocationSteps ==
    \/ CreateAgentPreferences
    \/ FirstPart
    \/ SkipDistributed
    \/ AllocateToLastAgent
    \/ TryRandomAgent
    \/ RandintRaises
    \/ ReturnAllocation

IterationFairness ==
    \/ []<>(~(pc = "loop" /\ InRange(run)))
    \/ []<><<pc = "loop" /\ InRange(run)>>_vars

FairSpec ==
    /\ Spec
    /\ WF_vars(AllocationSteps)
    /\ WF_vars(Exhaust)
    /\ IterationFairness

\* ======================================================= welfare evaluator
\* The count vectors given to split_nsw: ones, except for a value 0..2 at any
\* one position and a value 0..2 at the first or the last position.
NswVectors ==
    UNION { { [i \in 1..len |-> IF i = z THEN v ELSE IF i = y THEN w ELSE 1] :
                z \in 1..len, v \in 0..2, y \in {1, len}, w \in 0..2 } :
            len \in 1..MaxVectorLength }

InitNsw ==
    /\ agent_values \in NswVectors
    /\ agent_quantity = Len(agent_values)
    /\ item_quantity = 0
    /\ preferences = <<>>
    /\ allocation = <<>>
    /\ leftover_items = <<>>
    /\ leftover_item = 0
    /\ infinity_counter = 0
    /\ run = 0
    /\ global_swapping_list = <<>>
    /\ pc = "split_nsw"
    /\ returned = NoValue
    /\ visited_allocations = {}
    /\ nsw_value = Whole(NoValue)
    /\ envy_relation = <<>>
    /\ solution_matrix = <<>>
    /\ chosen_path = <<>>

ApplySplitNsw ==
    /\ pc = "split_nsw"
    /\ nsw_value' = split_nsw(agent_values)
    /\ pc' = "nsw_done"
    /\ UNCHANGED <<agent_quantity, item_quantity, preferences, allocation,
                   leftover_items, leftover_item, infinity_counter, run,
                   global_swapping_list, returned, visited_allocations,
                   agent_values, envy_relation, solution_matrix, chosen_path>>

ApplyNashSocialWelfare ==
    /\ pc = "split_nsw"
    /\ nsw_value' = nash_social_welfare(agent_values)
    /\ pc' = "direct_done"
    /\ UNCHANGED <<agent_quantity, item_quantity, preferences, allocation,
                   leftover_items, leftover_item, infinity_counter, run,
                   global_swapping_list, returned, visited_allocations,
                   agent_values, envy_relation, solution_matrix, chosen_path>>

NextNsw == ApplySplitNsw \/ ApplyNashSocialWelfare

SpecNsw == InitNsw /\ [][NextNsw]_vars

\* ============================================================= APSP solver
\* The graphs given to solve_APSP: up to MaxGraphNodes agents and up to
\* MaxEdges envy edges between different agents, as sorted, duplicate-free
\* adjacency lists (the form shorten_envy_list produces).
Pairs(n) == { e \in (0..(n - 1)) \X (0..(n - 1)) : e[1] # e[2] }

RECURSIVE EdgeSets(_, _)
EdgeSets(n, k) ==
    IF k = 0 THEN {{}}
    ELSE LET fewer == EdgeSets(n, k - 1)
         IN  fewer \cup { g \cup {e} : g \in fewer, e \in Pairs(n) }

AdjacencyLists(n, edges) ==
    [a \in 1..n |-> SelectSeq(Range0(n), LAMBDA b : <<a - 1, b>> \in edges)]

InitApsp ==
    /\ \E n \in 1..MaxGraphNodes : \E edges \in EdgeSets(n, MaxEdges) :
          /\ agent_quantity = n
          /\ envy_relation = AdjacencyLists(n, edges)
    /\ item_quantity = 0
    /\ preferences = <<>>
    /\ allocation = <<>>
    /\ leftover_items = <<>>
    /\ leftover_item = 0
    /\ infinity_counter = 0
    /\ run = 0
    /\ global_swapping_list = <<>>
    /\ pc = "solve_APSP"
    /\ returned = NoValue
    /\ visited_allocations = {}
    /\ agent_values = <<>>
    /\ nsw_value = Whole(NoValue)
    /\ solution_matrix = <<>>
    /\ chosen_path = <<>>

ApplySolveApsp ==
    /\ pc = "solve_APSP"
    /\ solution_matrix' = solve_APSP(envy_relation)
    /\ pc' = "apsp_done"
    /\ UNCHANGED <<agent_quantity, item_quantity, preferences, allocation,
                   leftover_items, leftover_item, infinity_counter, run,
                   global_swapping_list, returned, visited_allocations,
                   agent_values, nsw_value, envy_relation, chosen_path>>

NextApsp == ApplySolveApsp

SpecApsp == InitApsp /\ [][NextApsp]_vars

\* ===================================================== reallocation executor
\* The inputs given to pick_items and execute_swap: an instance, a total
\* allocation in which every owner likes the item, and any path of at least
\* two different agents.
AgentPaths(n) ==
    { p \in UNION { [1..k -> 0..(n - 1)] : k \in 2..n } :
        \A i \in 1..Len(p) : \A j \in 1..Len(p) : i # j => p[i] # p[j] }

InitExecutor ==
    /\ \E instance \in { i \in Instances : Exhaustive(i[1], i[2]) } :
          /\ agent_quantity = instance[1]
          /\ item_quantity = instance[2]
    /\ preferences \in create_agent_preferences(agent_quantity, item_quantity)
    /\ allocation \in { alloc \in [1..item_quantity -> 0..(agent_quantity - 1)] :
                          \A item \in 0..(item_quantity - 1) :
                              At(At(preferences, At(alloc, item)), item) }
    /\ chosen_path \in AgentPaths(agent_quantity)
    /\ visited_allocations = {allocation}
    /\ leftover_items = <<>>
    /\ leftover_item = 0
    /\ infinity_counter = 0
    /\ run = 0
    /\ global_swapping_list = <<>>
    /\ pc = "execute_swap"
    /\ returned = NoValue
    /\ agent_values = <<>>
    /\ nsw_value = Whole(NoValue)
    /\ envy_relation = <<>>
    /\ solution_matrix = <<>>

\* swapping_plan = pick_items(...); allocation = execute_swap(...)
ApplyExecutor ==
    /\ pc = "execute_swap"
    /\ LET swapping_plan == pick_items(chosen_path, allocation,
                                       find_possession(allocation), preferences)
       IN  /\ global_swapping_list' = Append(global_swapping_list, swapping_plan)
           /\ allocation' = execute_swap(allocation, swapping_plan, chosen_path)
    /\ pc' = "swap_done"
    /\ UNCHANGED <<agent_quantity, item_quantity, preferences, leftover_items,
                   leftover_item, infinity_counter, run, returned,
                   visited_allocations, agent_values, nsw_value, envy_relation,
                   solution_matrix, chosen_path>>

NextExecutor == ApplyExecutor

SpecExecutor == InitExecutor /\ [][NextExecutor]_vars

\* ================================================================== claims
LoopStates == {"loop", "CONVERGED", "BUDGET_EXHAUSTED"}
Terminated == pc \in {"CONVERGED", "BUDGET_EXHAUSTED"}
AgentSet == 0..(agent_quantity - 1)
ItemSet == 0..(item_quantity - 1)

\* number of items an allocation gives to an agent, and the product of the counts
ItemCount(alloc, agent) == Cardinality({ k \in 1..Len(alloc) : alloc[k] = agent })
RECURSIVE Product(_)
Product(values) == IF values = <<>> THEN 1 ELSE Head(values) * Product(Tail(values))
NashProduct(alloc) == Product([a \in 1..agent_quantity |-> ItemCount(alloc, a - 1)])

\* C1: in every state of the optimization loop the allocation is total and
\* exclusive: each item has an owner in [0, n) and occurs exactly once in the
\* possession lists of find_possession, which together hold all m items.
C1_AllocationIsPartition ==
    pc \in LoopStates =>
        LET possessions == find_possession(allocation)
        IN  /\ Len(allocation) = item_quantity
            /\ \A item \in ItemSet : At(allocation, item) \in AgentSet
            /\ \A item \in ItemSet :
                  Cardinality({ <<a, k>> \in (1..agent_quantity) \X (1..item_quantity) :
                                  k <= Len(possessions[a]) /\ possessions[a][k] = item }) = 1

\* C1 witness: a swap has been executed and the loop holds the new allocation
C1_Witness ==
    /\ pc = "loop"
    /\ run >= 1
    /\ C1_AllocationIsPartition

\* C2: every executed swap strictly increases the product of the per-agent
\* item counts, and the allocation it produces was never held before in the run.
C2_SwapIncreasesWelfare ==
    [][ (pc = "loop" /\ run' = run + 1) =>
            /\ NashProduct(allocation') > NashProduct(allocation)
            /\ allocation' \notin visited_allocations ]_vars

\* C2 witness: two swaps have been executed and three different allocations
\* have been held
C2_Witness ==
    /\ pc \in LoopStates
    /\ run >= 2
    /\ Len(global_swapping_list) = run
    /\ Cardinality(visited_allocations) = run + 1

\* C3: the loop executes at most round(2 n (m+1) ln(n m)) iterations (hence
\* swaps) and, once entered, always ends CONVERGED or BUDGET_EXHAUSTED.
C3_BoundedAndTerminates ==
    /\ [](pc \in LoopStates =>
            /\ run <= IterationCap
            /\ Len(global_swapping_list) <= IterationCap
            /\ (pc = "CONVERGED" => run + 1 <= IterationCap))
    /\ (pc = "loop" ~> Terminated)

\* C3 witness: a run with n >= 2, m >= n has ended after at least one swap
C3_Witness ==
    /\ Terminated
    /\ agent_quantity >= 2
    /\ item_quantity >= agent_quantity
    /\ run >= 1

\* the counts after moving one item from the last to the first agent of a path
HypotheticalProduct(path, alloc) ==
    Product([a \in 1..agent_quantity |->
                ItemCount(alloc, a - 1)
                + (IF a - 1 = path[1] THEN 1 ELSE 0)
                - (IF a - 1 = path[Len(path)] THEN 1 ELSE 0)])

\* C4: an iteration whose best path is empty goes to CONVERGED without a swap,
\* nothing changes afterwards, and in the final allocation no path of the
\* shortest-path table has a hypothetical welfare above the current welfare.
C4_StopsAtFirstEmptyPath ==
    /\ [][ (pc = "loop" /\ InRange(run) /\ BestPath = <<>>) =>
              /\ pc' = "CONVERGED"
              /\ allocation' = allocation
              /\ global_swapping_list' = global_swapping_list ]_vars
    /\ [][ pc = "CONVERGED" =>
              UNCHANGED <<pc, allocation, global_swapping_list, run>> ]_vars
    /\ [](pc = "CONVERGED" =>
            \A i \in 1..agent_quantity : \A j \in 1..agent_quantity :
                ApspMatrix[i][j] # <<>> =>
                    HypotheticalProduct(ApspMatrix[i][j], allocation)
                        <= NashProduct(allocation))

\* C4 witness: converged after a swap, with paths left in the table
C4_Witness ==
    /\ pc = "CONVERGED"
    /\ run >= 1
    /\ \E i \in 1..agent_quantity : \E j \in 1..agent_quantity :
          ApspMatrix[i][j] # <<>>

\* the allocations in which every item is owned by an agent who likes it
NonWastefulAllocations ==
    { alloc \in [1..item_quantity -> AgentSet] :
        \A item \in ItemSet : At(At(preferences, At(alloc, item)), item) }

\* C5: when the loop stops on an empty best path, the final allocation has the
\* maximum Nash Social Welfare among all allocations in which every item is
\* owned by an agent who likes it.
C5_ConvergedIsOptimal ==
    pc = "CONVERGED" =>
        \A alloc \in NonWastefulAllocations :
            NashProduct(alloc) <= NashProduct(allocation)

\* the instance of the end-to-end example
ExamplePreferences ==
    << <<TRUE, FALSE, FALSE>>, <<FALSE, TRUE, FALSE>>, <<TRUE, TRUE, TRUE>> >>
ExampleInstance ==
    /\ agent_quantity = 3
    /\ item_quantity = 3
    /\ preferences = ExamplePreferences

\* C6: on the example instance the loop starts from item i -> agent i, finds
\* an empty best path in its first iteration and ends CONVERGED with no swap
\* and the allocation unchanged.
C6_ExampleConvergesAtOnce ==
    (ExampleInstance /\ pc \in LoopStates) =>
        /\ allocation = <<0, 1, 2>>
        /\ run = 0
        /\ global_swapping_list = <<>>
        /\ pc # "BUDGET_EXHAUSTED"
        /\ (pc = "loop" => (InRange(run) /\ BestPath = <<>>))

\* C6 witness: the example instance has converged
C6_Witness ==
    /\ ExampleInstance
    /\ pc = "CONVERGED"
    /\ allocation = <<0, 1, 2>>

C9_ZeroGivesZero ==
    pc = "nsw_done" =>
        /\ (\E i \in 1..Len(agent_values) : agent_values[i] = 0) => RIsZero(nsw_value)
        /\ nsw_value = Root(Product(agent_values), agent_quantity)

\* C9 witness: the only zero lies after two full chunks
C9_Witness ==
    /\ pc = "nsw_done"
    /\ \E i \in 1..Len(agent_values) :
          /\ i > 2 * ChunkSize
          /\ agent_values[i] = 0
          /\ \A j \in 1..Len(agent_values) : agent_values[j] = 0 => j = i
    /\ RIsZero(nsw_value)

\* C10: whenever random_allocation returns, the allocation it returns gives
\* every item an owner in [0, n) (no placeholder is left) who likes the item or
\* is the last agent, whatever the preferences and the random choices were.
C10_InitialAllocationNonWasteful ==
    (pc = "second_part" /\ leftover_item = item_quantity) =>
        \A item \in ItemSet :
            /\ At(allocation, item) # NoOwner
            /\ At(allocation, item) \in AgentSet
            /\ \/ At(At(preferences, At(allocation, item)), item)
               \/ At(allocation, item) = agent_quantity - 1

\* C10 witness: random_allocation returns an allocation in which the second
\* part gave one item to a random agent and one item to the last agent
C10_Witness ==
    /\ pc = "second_part"
    /\ leftover_item = item_quantity
    /\ \E i \in ItemSet : \E j \in ItemSet :
          /\ At(leftover_items, i) # 1
          /\ At(leftover_items, j) # 1
          /\ At(allocation, i) = agent_quantity - 1
          /\ At(allocation, j) < agent_quantity - 1

\* C11: the swap executed for the path [p0, ..., pk] that find_path returned
\* raises the item count of p0 by one, lowers the count of pk by one and
\* leaves the count of every other agent as it was, so the welfare after the
\* swap is the hypothetical welfare fast_nsw computed for the path.
C11_SwapMatchesHypothetical ==
    [][ (pc = "loop" /\ run' = run + 1) =>
            /\ \A a \in AgentSet :
                  ItemCount(allocation', a) =
                      ItemCount(allocation, a)
                      + (IF a = BestPath[1] THEN 1 ELSE 0)
                      - (IF a = BestPath[Len(BestPath)] THEN 1 ELSE 0)
            /\ split_nsw(calculate_agent_valuations(allocation'))
                   = fast_nsw(BestPath, allocation) ]_vars

\* C11 witness: a swap along a path with an intermediate agent was executed
C11_Witness ==
    /\ pc \in LoopStates
    /\ \E k \in 1..Len(global_swapping_list) : Len(global_swapping_list[k]) >= 2

\* the non-empty entries of the shortest-path table of the current allocation
TablePaths ==
    { ApspMatrix[i][j] : i \in 1..agent_quantity, j \in 1..agent_quantity } \ {<<>>}

\* C12: find_path returns a path of the table with the maximum hypothetical
\* welfare when that maximum is strictly greater than the welfare of the
\* current allocation, and the empty path otherwise (also when the maximum
\* equals the current welfare or the table has no path).
C12_SelectorReturnsMaximum ==
    pc = "loop" =>
        IF \E p \in TablePaths :
               HypotheticalProduct(p, allocation) > NashProduct(allocation)
        THEN /\ BestPath \in TablePaths
             /\ \A p \in TablePaths :
                   HypotheticalProduct(p, allocation)
                       <= HypotheticalProduct(BestPath, allocation)
        ELSE BestPath = <<>>

\* C12 witness: the selector returns a path while the table also holds a path
\* with a lower hypothetical welfare
C12_Witness ==
    /\ pc = "loop"
    /\ BestPath # <<>>
    /\ \E p \in TablePaths :
          HypotheticalProduct(p, allocation) < HypotheticalProduct(BestPath, allocation)

\* C13: when several paths of the table have the maximum hypothetical
\* welfare, find_path returns the first of them in traversal order (lowest
\* source index, then lowest destination index); the entry for source s and
\* destination t is the path that starts at s and ends at t.
C13_FirstMaximumWins ==
    (pc = "loop" /\ BestPath # <<>>) =>
        /\ BestPath = ApspMatrix[BestPath[1] + 1][BestPath[Len(BestPath)] + 1]
        /\ \A p \in TablePaths :
              HypotheticalProduct(p, allocation) = HypotheticalProduct(BestPath, allocation)
              => \/ BestPath[1] < p[1]
                 \/ (BestPath[1] = p[1] /\ BestPath[Len(BestPath)] <= p[Len(p)])

\* C13 witness: the selector returns a path and another path of the table has
\* the same hypothetical welfare
C13_Witness ==
    /\ pc = "loop"
    /\ BestPath # <<>>
    /\ \E p \in TablePaths :
          /\ p # BestPath
          /\ HypotheticalProduct(p, allocation) = HypotheticalProduct(BestPath, allocation)

\* the agents other than a who own an item that a likes
EnviedBy(a) ==
    { b \in AgentSet \ {a} :
        \E item \in ItemSet : At(At(preferences, a), item) /\ At(allocation, item) = b }

\* C14: the adjacency list of agent a in the envy graph is the strictly
\* ascending list of the agents b # a who own at least one item that a likes.
C14_EnvyListIsSortedSet ==
    pc = "loop" =>
        \A a \in AgentSet :
            LET list == At(ShortenedEnvyRelation, a)
            IN  /\ \A k \in 1..(Len(list) - 1) : list[k] < list[k + 1]
                /\ { list[k] : k \in 1..Len(list) } = EnviedBy(a)
                /\ \A k \in 1..Len(list) : list[k] # a

\* C14 witness: the unshortened list of some agent is out of order and names
\* an agent twice
C14_Witness ==
    /\ pc = "loop"
    /\ \E a \in AgentSet :
          LET raw == At(calculate_item_envy_relations(preferences, allocation), a)
          IN  /\ \E k \in 1..(Len(raw) - 1) : raw[k] > raw[k + 1]
              /\ \E k \in 1..Len(raw) : \E l \in 1..Len(raw) : k # l /\ raw[k] = raw[l]

\* the agents an edge of the given graph leads to from u
Adjacent(u) == { At(At(envy_relation, u), k) : k \in 0..(Len(At(envy_relation, u)) - 1) }

\* the agents reachable from s along at most k edges
RECURSIVE Within(_, _)
Within(s, k) ==
    IF k <= 0 THEN (IF k = 0 THEN {s} ELSE {})
    ELSE LET w == Within(s, k - 1)
         IN  w \cup UNION { Adjacent(u) : u \in w }

\* the entry of the table for source s and target t
Entry(s, t) == At(At(solution_matrix, s), t)

\* C15: the entry for (s, t) is empty iff s = t or t is not reachable from
\* s; a non-empty entry is a directed walk from s to t along edges of the
\* graph whose number of edges is the distance from s to t.
C15_TableHoldsShortestWalks ==
    pc = "apsp_done" =>
        \A s \in AgentSet : \A t \in AgentSet :
            LET p == Entry(s, t)
            IN  /\ (p = <<>>) <=> (s = t \/ t \notin Within(s, agent_quantity))
                /\ p # <<>> =>
                      /\ Len(p) >= 2
                      /\ p[1] = s
                      /\ p[Len(p)] = t
                      /\ \A i \in 1..(Len(p) - 1) : p[i + 1] \in Adjacent(p[i])
                      /\ t \in Within(s, Len(p) - 1)
                      /\ t \notin Within(s, Len(p) - 2)

\* C15 witness: a table with a walk over two intermediate agents and with an
\* unreachable target
C15_Witness ==
    /\ pc = "apsp_done"
    /\ \E s \in AgentSet : \E t \in AgentSet : Len(Entry(s, t)) >= 4
    /\ \E s \in AgentSet : \E t \in AgentSet : s # t /\ Entry(s, t) = <<>>

\* the graph with the edges 0 -> 1 and 1 -> 2 on three agents
ChainGraph ==
    /\ agent_quantity = 3
    /\ envy_relation = << <<1>>, <<2>>, <<>> >>

\* C16 (as claimed): a stored path does not contain its source and has as
\* many entries as the distance; in the chain graph the row of source 0 holds
\* [1] for target 1 and [1, 2] for target 2, the row of source 2 is empty.
C16_PathExcludesSource ==
    pc = "apsp_done" =>
        /\ \A s \in AgentSet : \A t \in AgentSet :
              LET p == Entry(s, t)
              IN  p # <<>> =>
                     /\ \A i \in 1..Len(p) : p[i] # s
                     /\ p[Len(p)] = t
                     /\ t \in Within(s, Len(p))
                     /\ t \notin Within(s, Len(p) - 1)
        /\ ChainGraph =>
              /\ Entry(0, 1) = <<1>>
              /\ Entry(0, 2) = <<1, 2>>
              /\ \A t \in AgentSet : Entry(2, t) = <<>>

\* C16 (amended): a stored path starts with its source s, lists the agents
\* visited after s in traversal order and ends at t; s occurs only at the
\* front and the number of entries is the distance plus one.  In the chain
\* graph the row of source 0 holds [0, 1] and [0, 1, 2], the row of source 2
\* is empty.
C16_PathIncludesSource ==
    pc = "apsp_done" =>
        /\ \A s \in AgentSet : \A t \in AgentSet :
              LET p == Entry(s, t)
              IN  p # <<>> =>
                     /\ p[1] = s
                     /\ \A i \in 2..Len(p) : p[i] # s
                     /\ p[Len(p)] = t
                     /\ t \in Within(s, Len(p) - 1)
                     /\ t \notin Within(s, Len(p) - 2)
        /\ ChainGraph =>
              /\ Entry(0, 0) = <<>>
              /\ Entry(0, 1) = <<0, 1>>
              /\ Entry(0, 2) = <<0, 1, 2>>
              /\ \A t \in AgentSet : Entry(2, t) = <<>>

\* C16 witness: the table of the chain graph has been computed
C16_Witness ==
    /\ pc = "apsp_done"
    /\ ChainGraph
    /\ Entry(0, 2) # <<>>

\* the order in which bfs from s expands the agents
ExpansionOrder(s) ==
    bfs_popped(envy_relation,
               [queue     |-> <<s>>,
                visited   |-> Put(Repeat(FALSE, agent_quantity), s, TRUE),
                distances |-> Put(Repeat(Inf, agent_quantity), s, 0),
                paths     |-> Repeat(<<>>, agent_quantity)],
               <<>>)
Position(order, x) == CHOOSE i \in 1..Len(order) : order[i] = x
Members(order) == { order[i] : i \in 1..Len(order) }
Expanded(s) == Members(ExpansionOrder(s))
\* the number of edges of the stored path from s to x
Level(s, x) == IF x = s THEN 0 ELSE Len(Entry(s, x)) - 1
\* the agent before x on the stored path from s to x
Parent(s, x) == Entry(s, x)[Len(Entry(s, x)) - 1]

\* the stored path to t goes over the agent that was expanded first among the
\* agents with an edge to t, and continues that agent's stored path
FirstFoundIsStored ==
    \A s \in AgentSet :
        LET order == ExpansionOrder(s)
        IN  \A t \in Members(order) \ {s} :
                LET u == Parent(s, t)
                IN  /\ t \in Adjacent(u)
                    /\ \A v \in Members(order) :
                          t \in Adjacent(v) => Position(order, u) <= Position(order, v)
                    /\ Entry(s, t) = (IF u = s THEN <<s>> ELSE Entry(s, u)) \o <<t>>

\* C17 (as claimed): the stored path is the one the FIFO search finds first,
\* and within every level the agents are expanded in ascending index order.
C17_LevelsExpandedAscending ==
    pc = "apsp_done" =>
        /\ FirstFoundIsStored
        /\ \A s \in AgentSet :
              LET order == ExpansionOrder(s)
              IN  \A i \in 1..Len(order) : \A j \in 1..Len(order) :
                      (i < j /\ Level(s, order[i]) = Level(s, order[j]))
                      => order[i] < order[j]

\* C17 (amended): the stored path is the one the FIFO search finds first;
\* the agents are expanded level by level, and within a level in the order in
\* which they were found: agents found from an earlier expanded agent first,
\* agents found from the same agent in ascending index order.
C17_LevelsExpandedInQueueOrder ==
    pc = "apsp_done" =>
        /\ FirstFoundIsStored
        /\ \A s \in AgentSet :
              LET order == ExpansionOrder(s)
              IN  /\ order[1] = s
                  /\ \A i \in 2..Len(order) : \A j \in 2..Len(order) :
                        LET x == order[i]
                            y == order[j]
                        IN  i < j
                            <=> \/ Level(s, x) < Level(s, y)
                                \/ /\ Level(s, x) = Level(s, y)
                                   /\ \/ Position(order, Parent(s, x))
                                             < Position(order, Parent(s, y))
                                      \/ (Parent(s, x) = Parent(s, y) /\ x < y)

\* C17 witness: two shortest paths lead from a source to the same target
C17_Witness ==
    /\ pc = "apsp_done"
    /\ \E s \in AgentSet : \E t \in Expanded(s) \ {s} :
          \E v \in Expanded(s) \ {Parent(s, t)} :
              t \in Adjacent(v) /\ Level(s, v) = Level(s, t) - 1

\* the items owned by giver that receiver likes
Giveable(receiver, giver) ==
    { item \in ItemSet :
        At(allocation, item) = giver /\ At(At(preferences, receiver), item) }

\* C18: for the path [p0, ..., pk] that find_path returns in a loop state,
\* pick_items returns exactly k items, the j-th being the lowest-index item
\* owned by p(j+1) that p(j) likes; the agents of the path and the k items are
\* pairwise distinct.
C18_OneItemPerHop ==
    (pc = "loop" /\ BestPath # <<>>) =>
        /\ Len(SwappingPlan) = Len(BestPath) - 1
        /\ \A j \in 1..(Len(BestPath) - 1) :
              /\ Giveable(BestPath[j], BestPath[j + 1]) # {}
              /\ SwappingPlan[j] = Min(Giveable(BestPath[j], BestPath[j + 1]))
        /\ \A i \in 1..Len(BestPath) : \A j \in 1..Len(BestPath) :
              i # j => BestPath[i] # BestPath[j]
        /\ \A i \in 1..Len(SwappingPlan) : \A j \in 1..Len(SwappingPlan) :
              i # j => SwappingPlan[i] # SwappingPlan[j]

\* C18 witness: the selected path has an intermediate agent and a giver on it
\* owns more than one item that the receiver likes
C18_Witness ==
    /\ pc = "loop"
    /\ Len(BestPath) >= 3
    /\ \E j \in 1..(Len(BestPath) - 1) :
          Cardinality(Giveable(BestPath[j], BestPath[j + 1])) >= 2

\* C19: the executor completes a swap only for a path in which every hop
\* (receiver, giver) is backed by an item the giver owned and the receiver
\* likes; for a path with an unbacked hop it fails instead of skipping the
\* hop and applying the remaining transfers.
C19_MissingHopIsFatal ==
    pc = "swap_done" =>
        \A before \in visited_allocations :
            \A j \in 1..(Len(chosen_path) - 1) :
                \E item \in ItemSet :
                    /\ At(before, item) = chosen_path[j + 1]
                    /\ At(At(preferences, chosen_path[j]), item)

\* C20: execute_swap makes the j-th agent of the path the owner of the j-th
\* item of the swapping list, for every j, and leaves the owner of every other
\* item as it was; the preferences are never modified once they are created.
C20_SwapFrame ==
    /\ [][ (pc = "loop" /\ run' = run + 1) =>
              /\ \A j \in 1..Len(SwappingPlan) :
                    At(allocation', SwappingPlan[j]) = BestPath[j]
              /\ \A item \in ItemSet :
                    (\A j \in 1..Len(SwappingPlan) : SwappingPlan[j] # item)
                    => At(allocation', item) = At(allocation, item) ]_vars
    /\ [][ pc # "create_agent_preferences" => preferences' = preferences ]_vars

\* C20 witness: a swap of two items has been executed and another item still
\* has the owner it had before
C20_Witness ==
    /\ pc = "loop"
    /\ run = 1
    /\ Len(global_swapping_list[1]) = 2
    /\ \E before \in visited_allocations : \E item \in ItemSet :
          /\ before # allocation
          /\ At(before, item) = At(allocation, item)

\* C21 (as claimed): in the example instance with the allocation
\* item i -> agent i the envy graph has no edges.
C21_ExampleHasNoEnvyEdges ==
    (ExampleInstance /\ pc = "loop" /\ allocation = <<0, 1, 2>>) =>
        ShortenedEnvyRelation = << <<>>, <<>>, <<>> >>

\* C21 (amended): in the example instance with the allocation
\* item i -> agent i the envy graph has exactly the edges 2 -> 0 and 2 -> 1
\* (agent 2 likes the items 0 and 1, which agents 0 and 1 own); the adjacency
\* lists of agents 0 and 1 are empty.
C21_ExampleEnvyEdges ==
    (ExampleInstance /\ pc = "loop" /\ allocation = <<0, 1, 2>>) =>
        /\ calculate_item_envy_relations(preferences, allocation)
               = << <<>>, <<>>, <<0, 1>> >>
        /\ ShortenedEnvyRelation = << <<>>, <<>>, <<0, 1>> >>

\* C21 witness: the loop is entered with the example instance
C21_Witness ==
    /\ ExampleInstance
    /\ pc = "loop"
    /\ allocation = <<0, 1, 2>>
    /\ run = 0

\* a = b as real numbers (neither is greater)
REqual(a, b) == ~RGreater(a, b) /\ ~RGreater(b, a)

\* C22: for every count vector the chunked formula split_nsw and the direct
\* formula nash_social_welfare give the same real number, the n-th root of
\* the product of all values (exact arithmetic, products within the width of
\* the integers of the direct formula): whichever of the two was applied, its
\* result equals the result of the other.
C22_ChunkedEqualsDirect ==
    /\ pc = "nsw_done" =>
          /\ REqual(nsw_value, nash_social_welfare(agent_values))
          /\ nsw_value.idx = agent_quantity
    /\ pc = "direct_done" =>
          /\ REqual(nsw_value, split_nsw(agent_values))
          /\ nsw_value.idx = agent_quantity

\* C22 witness: the chunked formula was applied to a vector of two full
\* chunks and a partial one, with a value other than 1 in the first chunk and
\* one in the partial chunk, and the result is not zero
C22_Witness ==
    /\ pc = "nsw_done"
    /\ Len(agent_values) > 2 * ChunkSize
    /\ agent_values[1] = 2
    /\ agent_values[Len(agent_values)] = 2
    /\ ~RIsZero(nsw_value)

\* C23: in every state of the loop every item is owned by an agent who likes
\* it, so the count calculate_agent_valuations gives an agent is the number of
\* items the agent owns and likes.
C23_LoopKeepsNonWasteful ==
    pc \in LoopStates =>
        /\ \A item \in ItemSet : At(At(preferences, At(allocation, item)), item)
        /\ \A a \in AgentSet :
              At(calculate_agent_valuations(allocation), a)
                  = Cardinality({ item \in ItemSet :
                                    /\ At(allocation, item) = a
                                    /\ At(At(preferences, a), item) })

\* C23 witness: after a swap an agent other than the last owns an item and
\* does not like every item
C23_Witness ==
    /\ pc \in LoopStates
    /\ run >= 1
    /\ \E a \in AgentSet \ {agent_quantity - 1} :
          /\ ItemCount(allocation, a) >= 1
          /\ \E item \in ItemSet : ~At(At(preferences, a), item)

\* an instance with at least two agents and at least as many items as agents
RegularInstance == agent_quantity >= 2 /\ item_quantity >= agent_quantity

\* C24: for n >= 2 and m >= n the run never ends because the range of the
\* loop is used up: every iteration the loop starts has an index below the
\* cap, BUDGET_EXHAUSTED is never reached, and the loop always reaches
\* CONVERGED.
C24_BudgetIsNeverTheReason ==
    /\ [](RegularInstance =>
            /\ pc # "BUDGET_EXHAUSTED"
            /\ (pc = "loop" => InRange(run)))
    /\ ((pc = "loop" /\ RegularInstance) ~> pc = "CONVERGED")

\* C24 witness: a run with n >= 2 and m >= n has converged after two swaps
C24_Witness ==
    /\ RegularInstance
    /\ pc = "CONVERGED"
    /\ run = 2

\* at least two agents own no item
TwoAgentsOwnNothing ==
    Cardinality({ a \in AgentSet : ItemCount(allocation, a) = 0 }) >= 2

\* C25: whenever at least two agents own no item, find_path returns the
\* empty path, whatever paths the table holds, and the iteration ends the
\* loop as CONVERGED without a swap.
C25_TwoEmptyAgentsConverge ==
    /\ []((pc = "loop" /\ TwoAgentsOwnNothing) =>
             /\ BestPath = <<>>
             /\ InRange(run)
             /\ \A p \in TablePaths : fast_nsw(p, allocation) = Root(0, agent_quantity))
    /\ [][ (pc = "loop" /\ TwoAgentsOwnNothing) =>
              /\ pc' = "CONVERGED"
              /\ allocation' = allocation
              /\ global_swapping_list' = global_swapping_list ]_vars

\* C25 witness: with m >= n the loop has converged with two agents owning nothing while
\* the table holds a path to an agent who owns nothing
C25_Witness ==
    /\ pc = "CONVERGED"
    /\ RegularInstance
    /\ TwoAgentsOwnNothing
    /\ \E p \in TablePaths : ItemCount(allocation, p[1]) = 0

====
